---- MODULE Spec2Model ----
(***************************************************************************)
(* The request-execution core of the geoapify client: Client.buildURL,    *)
(* Client.doGet / Client.doPost, Client.do (client.go), the retry loop     *)
(* retryConfig.do and retryConfig.calculateDelay (retry.go) and            *)
(* newAPIError (errors).                                                   *)
(*                                                                         *)
(* One logical call is followed from the entry point to its return.  The  *)
(* server, the transport and the caller's context are the environment:    *)
(* every response (status, body, Retry-After header), every transport or  *)
(* read failure and every moment of cancellation is a nondeterministic    *)
(* input.                                                                  *)
(*                                                                         *)
(* Time is counted in ticks; a second is Second ticks and a time.Duration *)
(* is a signed integer of DurationBits bits (int64 nanoseconds in the     *)
(* source, scaled down so that the state space stays finite and small     *)
(* while the wrap-around of the multiplication is kept).                  *)
(***************************************************************************)
EXTENDS Integers, Sequences, FiniteSets, TLC

\* ------------------------------------------------------------------ bounds

\* Largest maxRetries a client is configured with (WithRetry also accepts -1).
MaxMaxRetries == 2
\* Largest attempt index handed to calculateDelay in CalcSpec.
MaxCalcAttempt == 4
\* The jitter draw rand.Float64() takes the values j / JitterDen.
JitterDen == 2
\* Ticks per second (time.Second) and width of a time.Duration.
Second == 4
DurationBits == 6
\* Most parameters a caller puts into a mapping, and most values under apiKey.
MaxParams == 2
\* Most URLs built from one mapping in UrlSpec.
MaxBuilds == 2

\* ------------------------------------------------------- values and inputs

Methods == {"GET", "POST"}

\* Status codes a server can send (any three-digit code reaches the client).
StatusCodes == {101, 200, 299, 300, 400, 401, 429, 500, 599, 600}

StatusTooManyRequests == 429

\* A field of a JSON object as encoding/json meets it: absent, or a value of
\* some JSON type (value: its contents when it is a string).
Absent == [type |-> "absent", value |-> ""]
Str(v) == [type |-> "string", value |-> v]
NonStr(t) == [type |-> t, value |-> ""]

\* A JSON object with the members message and error (other members aside).
Object(message, error) == [kind |-> "object", message |-> message, error |-> error]
\* Any other document: "array", "string", "null", or "invalid" (not JSON).
Document(kind) == [kind |-> kind, message |-> Absent, error |-> Absent]

\* Response bodies.  text is the body's bytes; doc is the JSON document they
\* hold; decode is what json.Unmarshal(body, result) does for the caller's
\* target: "ok", "syntax" (rejected before the target is touched) or "type"
\* (a field of the wrong type: error returned, other fields already written).
Bodies ==
    { [text |-> "{\"ok\":true}",
       doc |-> Object(Absent, Absent),
       decode |-> "ok"],
      [text |-> "{\"message\":\"Invalid key\"}",
       doc |-> Object(Str("Invalid key"), Absent),
       decode |-> "ok"],
      [text |-> "{\"error\":\"Unauthorized\",\"ok\":\"yes\"}",
       doc |-> Object(Absent, Str("Unauthorized")),
       decode |-> "type"],
      [text |-> "Service Unavailable",
       doc |-> Document("invalid"),
       decode |-> "syntax"] }

\* Bodies newAPIError is applied to in ErrSpec: the above and further error
\* documents a server or a proxy in front of it can send.
ErrorBodies ==
    Bodies \cup
    { [text |-> "{\"message\":\"Rate limit exceeded\",\"error\":\"Too Many Requests\"}",
       doc |-> Object(Str("Rate limit exceeded"), Str("Too Many Requests")),
       decode |-> "ok"],
      [text |-> "{\"message\":\"\",\"error\":\"Not found\"}",
       doc |-> Object(Str(""), Str("Not found")),
       decode |-> "ok"],
      [text |-> "{\"message\":null,\"error\":\"Not found\"}",
       doc |-> Object(NonStr("null"), Str("Not found")),
       decode |-> "ok"],
      [text |-> "{\"message\":\"\",\"error\":\"\"}",
       doc |-> Object(Str(""), Str("")),
       decode |-> "ok"],
      [text |-> "{\"message\":429,\"error\":\"Too Many Requests\"}",
       doc |-> Object(NonStr("number"), Str("Too Many Requests")),
       decode |-> "ok"],
      [text |-> "{\"message\":\"Rate limit exceeded\",\"error\":{\"code\":429}}",
       doc |-> Object(Str("Rate limit exceeded"), NonStr("object")),
       decode |-> "ok"],
      [text |-> "[\"Bad Gateway\"]",
       doc |-> Document("array"),
       decode |-> "type"],
      [text |-> "\"Bad Gateway\"",
       doc |-> Document("string"),
       decode |-> "type"],
      [text |-> "null",
       doc |-> Document("null"),
       decode |-> "ok"] }

\* Retry-After header values, as sequences of characters ("" is <<>>, the
\* value of Header.Get when the header is absent).
RetryAfterValues ==
    { <<>>, <<"0">>, <<"2">>, <<"8">>, <<"-", "1">>, <<"1", ".", "5">> }

\* Delays a client is configured with, <<initialDelay, maxDelay>>:
\* 0 < initialDelay <= maxDelay.
DelayPairs == { <<1, 2>>, <<3, 4>> }

\* c.retry: <<>> is the nil pointer, <<r>> points to the retryConfig r.
RetryConfigs ==
    { <<>> } \cup
    { << [maxRetries |-> n, initialDelay |-> d[1], maxDelay |-> d[2]] >> :
        n \in -1..MaxMaxRetries, d \in DelayPairs }

\* The hints fn can return: nil, or a retryHint.
Hints == { <<>> } \cup { << [retryAfter |-> ra] >> : ra \in RetryAfterValues }

\* ------------------------------------------------------------------ errors

\* An error value.  kind names the phase that produced it ("nil": no error;
\* "api": *APIError; "ctx": ctx.Err() itself; the others are the fmt.Errorf
\* wrappers of client.go); cause is the wrapped error ("ctx" when it wraps
\* the context's error).
Err(kind, cause) ==
    [kind |-> kind, cause |-> cause, StatusCode |-> 0, Message |-> "", RawBody |-> ""]

Nil == Err("nil", "")

CtxErr == Err("ctx", "ctx")

\* IsAPIError true of every error that is not nil.
IsAPIError_AnyError(e) == e.kind # "nil"

\* errors.As(err, &apiErr) of IsAPIError.
IsAPIError(e) == e.kind = "api"

\* errors.Is(err, context.Canceled): ctx.Err() or an error wrapping it.
IsCancellation(e) == e.cause = "ctx"

\* json.Unmarshal of one member into a string field of a struct: a string is
\* stored, null and an absent member leave the field alone, any other type
\* leaves it alone and makes Unmarshal return an UnmarshalTypeError.
FieldStored(f) == IF f.type = "string" THEN f.value ELSE ""
FieldMismatch(f) == f.type \notin {"absent", "string", "null"}

\* json.Unmarshal(body, &errResp) of newAPIError: whether it returned nil, and
\* errResp after the call.
\* "null" is the one document other than an object that a struct accepts.
UnmarshalErrResp(body) ==
    CASE body.doc.kind = "object" ->
            [ok |-> ~FieldMismatch(body.doc.message) /\ ~FieldMismatch(body.doc.error),
             Message |-> FieldStored(body.doc.message),
             Error |-> FieldStored(body.doc.error)]
      [] body.doc.kind = "null" -> [ok |-> TRUE, Message |-> "", Error |-> ""]
      [] OTHER -> [ok |-> FALSE, Message |-> "", Error |-> ""]

\* newAPIError(statusCode, body).
newAPIError(statusCode, body) ==
    LET errResp == UnmarshalErrResp(body)
        fromJSON ==
            IF errResp.ok
            THEN IF errResp.Message # "" THEN errResp.Message
                 ELSE IF errResp.Error # "" THEN errResp.Error
                 ELSE ""
            ELSE ""
    IN  [kind |-> "api", cause |-> "",
         StatusCode |-> statusCode,
         Message |-> IF fromJSON = "" THEN body.text ELSE fromJSON,
         RawBody |-> body.text]

\* ---------------------------------------------------------- classification

\* The success range taken to include 300.
IsFailureStatus_Through300(statusCode) == statusCode < 200 \/ statusCode > 300

\* resp.StatusCode < 200 || resp.StatusCode >= 300
IsFailureStatus(statusCode) == statusCode < 200 \/ statusCode >= 300

\* isRetryable with the client errors taken for retryable too.
isRetryable_ClientErrors(statusCode) == statusCode >= 400

\* isRetryable(statusCode)
isRetryable(statusCode) ==
    statusCode = StatusTooManyRequests \/ statusCode >= 500

\* ------------------------------------------------------------------- delay

MaxDuration == 2^(DurationBits - 1) - 1
MinDuration == -(2^(DurationBits - 1))

\* Two's-complement wrap of an integer into a Duration.
Wrap(x) == ((x - MinDuration) % (2^DurationBits)) + MinDuration

Digits == {"0", "1", "2", "3", "4", "5", "6", "7", "8", "9"}

DigitValue(c) ==
    CASE c = "0" -> 0 [] c = "1" -> 1 [] c = "2" -> 2 [] c = "3" -> 3
      [] c = "4" -> 4 [] c = "5" -> 5 [] c = "6" -> 6 [] c = "7" -> 7
      [] c = "8" -> 8 [] c = "9" -> 9

RECURSIVE DecimalValue(_)
DecimalValue(s) ==
    IF s = <<>> THEN 0
    ELSE 10 * DecimalValue(SubSeq(s, 1, Len(s) - 1)) + DigitValue(s[Len(s)])

\* strconv.Atoi(s): an optional sign, then one or more decimal digits; a
\* value outside the range of int is an error.
Atoi(s) ==
    LET signed == s # <<>> /\ s[1] \in {"+", "-"}
        digits == IF signed THEN Tail(s) ELSE s
        wellFormed == digits # <<>> /\ \A i \in 1..Len(digits) : digits[i] \in Digits
        magnitude == IF wellFormed THEN DecimalValue(digits) ELSE 0
        value == IF signed /\ s[1] = "-" THEN -magnitude ELSE magnitude
    IN  IF wellFormed /\ value >= MinDuration /\ value <= MaxDuration
        THEN [ok |-> TRUE, value |-> value]
        ELSE [ok |-> FALSE, value |-> 0]

\* The exponential backoff of calculateDelay: initialDelay * 2^attempt,
\* capped at maxDelay (computed in float64, which holds these values exactly).
Backoff(r, attempt) ==
    LET backoff == r.initialDelay * (2^attempt)
    IN  IF backoff > r.maxDelay THEN r.maxDelay ELSE backoff

\* Full jitter: backoff * rand.
Jittered_Full(backoff, j) == (backoff * j) \div JitterDen

\* backoff * (0.5 + rand*0.5) converted to a Duration, for the jitter draw
\* rand = j / JitterDen.  The conversion truncates toward zero.  The draw
\* j = JitterDen stands for draws so close to 1 that 0.5 + rand*0.5 rounds
\* to 1.0.
Jittered(backoff, j) == (backoff * (JitterDen + j)) \div (2 * JitterDen)

\* retryConfig.calculateDelay(attempt, hint), for the jitter draw j.
calculateDelay(r, attempt, hint, j) ==
    LET parsed == IF hint # <<>> /\ hint[1].retryAfter # <<>>
                  THEN Atoi(hint[1].retryAfter)
                  ELSE [ok |-> FALSE, value |-> 0]
    IN  IF parsed.ok
        THEN Wrap(parsed.value * Second)
        ELSE Jittered(Backoff(r, attempt), j)

\* ------------------------------------------------- one dispatch attempt

\* What c.httpClient.Do(req) followed by io.ReadAll(resp.Body) produced:
\* Do failed, the read failed, or a response was read to its end.
DoFailed(cause) == [io |-> "do", cause |-> cause,
                    StatusCode |-> 0, Body |-> "", RetryAfter |-> <<>>]
ReadFailed(cause) == [io |-> "read", cause |-> cause,
                      StatusCode |-> 0, Body |-> "", RetryAfter |-> <<>>]
Response(statusCode, body, retryAfter) ==
    [io |-> "response", cause |-> "",
     StatusCode |-> statusCode, Body |-> body, RetryAfter |-> retryAfter]

\* json.Unmarshal(respBody, result): the error it returns and what it leaves
\* in the target ("keep": untouched).
Unmarshal(body) ==
    CASE body.decode = "ok" -> [err |-> Nil, write |-> body.text]
      [] body.decode = "syntax" ->
            [err |-> Err("decoding response", "json"), write |-> "keep"]
      [] body.decode = "type" ->
            [err |-> Err("decoding response", "json"), write |-> "partial"]

\* The closure execute of Client.do (the path without a retry configuration):
\* the error it returns and its write to the decode target.
execute(o, hasResult) ==
    IF o.io = "do" THEN [err |-> Err("executing request", o.cause), write |-> "keep"]
    ELSE IF o.io = "read" THEN [err |-> Err("reading response", o.cause), write |-> "keep"]
    ELSE IF IsFailureStatus(o.StatusCode)
         THEN [err |-> newAPIError(o.StatusCode, o.Body), write |-> "keep"]
    ELSE IF hasResult THEN Unmarshal(o.Body)
    ELSE [err |-> Nil, write |-> "keep"]

\* retryFn unmarshalling the body of a failure response into the target too.
retryFn_DecodesErrorBody(o, hasResult) ==
    IF o.io = "do"
    THEN [hint |-> <<>>, err |-> Err("executing request", o.cause), write |-> "keep"]
    ELSE IF o.io = "read"
    THEN [hint |-> <<>>, err |-> Err("reading response", o.cause), write |-> "keep"]
    ELSE IF IsFailureStatus(o.StatusCode)
    THEN LET apiErr == newAPIError(o.StatusCode, o.Body)
             w == IF hasResult THEN Unmarshal(o.Body).write ELSE "keep"
         IN  IF isRetryable(o.StatusCode)
             THEN [hint |-> << [retryAfter |-> o.RetryAfter] >>,
                   err |-> apiErr, write |-> w]
             ELSE [hint |-> <<>>, err |-> apiErr, write |-> w]
    ELSE IF hasResult
    THEN [hint |-> <<>>, err |-> Unmarshal(o.Body).err, write |-> Unmarshal(o.Body).write]
    ELSE [hint |-> <<>>, err |-> Nil, write |-> "keep"]

\* retryFn without the json.Unmarshal of a 2xx body.
retryFn_NoDecode(o, hasResult) ==
    IF o.io = "do"
    THEN [hint |-> <<>>, err |-> Err("executing request", o.cause), write |-> "keep"]
    ELSE IF o.io = "read"
    THEN [hint |-> <<>>, err |-> Err("reading response", o.cause), write |-> "keep"]
    ELSE IF IsFailureStatus(o.StatusCode)
    THEN LET apiErr == newAPIError(o.StatusCode, o.Body)
         IN  IF isRetryable(o.StatusCode)
             THEN [hint |-> << [retryAfter |-> o.RetryAfter] >>,
                   err |-> apiErr, write |-> "keep"]
             ELSE [hint |-> <<>>, err |-> apiErr, write |-> "keep"]
    ELSE [hint |-> <<>>, err |-> Nil, write |-> "keep"]

\* The closure handed to c.retry.do by Client.do: the hint and the error it
\* returns, and its write to the decode target.
retryFn(o, hasResult) ==
    IF o.io = "do"
    THEN [hint |-> <<>>, err |-> Err("executing request", o.cause), write |-> "keep"]
    ELSE IF o.io = "read"
    THEN [hint |-> <<>>, err |-> Err("reading response", o.cause), write |-> "keep"]
    ELSE IF IsFailureStatus(o.StatusCode)
    THEN LET apiErr == newAPIError(o.StatusCode, o.Body)
         IN  IF isRetryable(o.StatusCode)
             THEN [hint |-> << [retryAfter |-> o.RetryAfter] >>,
                   err |-> apiErr, write |-> "keep"]
             ELSE [hint |-> <<>>, err |-> apiErr, write |-> "keep"]
    ELSE IF hasResult
    THEN [hint |-> <<>>, err |-> Unmarshal(o.Body).err, write |-> Unmarshal(o.Body).write]
    ELSE [hint |-> <<>>, err |-> Nil, write |-> "keep"]

\* The loop left only on a failure without a hint: a wait follows the last
\* iteration too.
breaks_OnNilHint(r, attempt, hint) == hint = <<>>

\* The loop left only when no iteration remains, whatever the hint.
breaks_WhenExhausted(r, attempt, hint) == attempt = r.maxRetries

\* The loop of retryConfig.do leaves after a failed attempt without waiting:
\* hint == nil || attempt == r.maxRetries.
breaks(r, attempt, hint) == hint = <<>> \/ attempt = r.maxRetries

\* --------------------------------------------------------------- the URL

\* A string of a URL is a sequence of tokens: a character, or a parameter
\* name, a path or a base URL taken as a whole.

\* Query parameter names, in the byte order sort.Strings puts them in
\* ("address": a name before "apiKey"; the names the request builders of
\* this package set all come after it).
KeysInByteOrder == << "address", "apiKey", "lat", "text" >>

ParamNames == { KeysInByteOrder[i] : i \in DOMAIN KeysInByteOrder }

KeyRank(k) == CHOOSE i \in DOMAIN KeysInByteOrder : KeysInByteOrder[i] = k

\* Parameter values and credentials.
ParamValues == { <<"1">>, <<"a", "&", "b">> }

ApiKeys == { <<>>, <<"k">>, <<"k", "&", "apiKey", "=", "x">> }

Paths == { "/v1/geocode/search", "/v1/routing" }

defaultBaseURL == "https://api.geoapify.com"

\* A url.Values: the entries [key, vals] of the map, in the order the keys
\* were inserted (an order the map itself does not keep).
ValuesHas(v, key) == \E i \in DOMAIN v : v[i].key = key

ValuesGet(v, key) == v[CHOOSE i \in DOMAIN v : v[i].key = key].vals

\* Values.Add(key, value)
ValuesAdd(v, key, value) ==
    IF ValuesHas(v, key)
    THEN [i \in DOMAIN v |->
            IF v[i].key = key
            THEN [key |-> key, vals |-> Append(v[i].vals, value)] ELSE v[i]]
    ELSE Append(v, [key |-> key, vals |-> <<value>>])

\* Values.Set(key, value)
ValuesSet(v, key, value) ==
    IF ValuesHas(v, key)
    THEN [i \in DOMAIN v |->
            IF v[i].key = key THEN [key |-> key, vals |-> <<value>>] ELSE v[i]]
    ELSE Append(v, [key |-> key, vals |-> <<value>>])

\* A parameter mapping as a caller hands it over: nil, or a map.
NilValues == [nil |-> TRUE, entries |-> <<>>]
MakeValues(entries) == [nil |-> FALSE, entries |-> entries]

\* QueryEscape leaving every character as it is.
QueryEscape_None(s) == s

\* url.QueryEscape(s): the separators of a query string are percent-encoded.
QueryEscape(s) ==
    [i \in DOMAIN s |->
        CASE s[i] = "&" -> "%26"
          [] s[i] = "=" -> "%3D"
          [] OTHER -> s[i]]

\* slices.Sorted(maps.Keys(v))
SortedKeys(v) == SelectSeq(KeysInByteOrder, LAMBDA k : ValuesHas(v, k))

\* The keys in the order of the entries.
InsertedKeys(v) == [i \in DOMAIN v |-> v[i].key]

\* key=value of every value of every key of keys, in that order.
RECURSIVE EncodedPairs(_, _)
EncodedPairs(v, keys) ==
    IF keys = <<>> THEN <<>>
    ELSE LET k == Head(keys)
             vs == ValuesGet(v, k)
         IN  [i \in DOMAIN vs |-> <<k, "=">> \o QueryEscape(vs[i])]
             \o EncodedPairs(v, Tail(keys))

\* The pairs written to the buffer with '&' between them.
RECURSIVE JoinPairs(_)
JoinPairs(pairs) ==
    IF pairs = <<>> THEN <<>>
    ELSE IF Len(pairs) = 1 THEN pairs[1]
    ELSE pairs[1] \o <<"&">> \o JoinPairs(Tail(pairs))

\* Encode walking the map in the order of its entries.
Encode_InsertionOrder(v) == JoinPairs(EncodedPairs(v, InsertedKeys(v)))

\* Values.Encode(): "URL encoded" form, sorted by key.
Encode(v) == JoinPairs(EncodedPairs(v, SortedKeys(v)))

\* buildURL with the credential added to the values of apiKey.
buildURL_Add(c, p, ps) ==
    LET m == IF ps.nil THEN <<>> ELSE ps.entries
        set == ValuesAdd(m, "apiKey", c.apiKey)
    IN  [url |-> <<c.baseURL, p, "?">> \o Encode(set),
         params |-> IF ps.nil THEN ps ELSE MakeValues(set)]

\* Client.buildURL(path, params) of the client c: the URL it returns and the
\* caller's mapping after the call (a nil mapping is replaced by a map of
\* buildURL's own; a map is written to in place).
buildURL(c, p, ps) ==
    LET m == IF ps.nil THEN <<>> ELSE ps.entries
        set == ValuesSet(m, "apiKey", c.apiKey)
    IN  [url |-> <<c.baseURL, p, "?">> \o Encode(set),
         params |-> IF ps.nil THEN ps ELSE MakeValues(set)]

\* ------------------------------------------------------------------- state

VARIABLES
    retry,          \* Client.retry: <<>> (nil) or <<retryConfig>>
    pc,             \* where the logical call stands
    method,         \* req.Method
    hasResult,      \* result != nil
    target,         \* contents of the decode target
    ctxDone,        \* the request's context is cancelled
    cancelAt,       \* pc at which the context was cancelled, "none" before
    attempt,        \* loop variable of retryConfig.do
    attempts,       \* calls of c.httpClient.Do so far
    reached,        \* of these, the ones the server answered
    bodyConsumed,   \* req.Body has been read by an earlier attempt
    resp,           \* <<response>> read by the latest attempt, <<>> if none
    statuses,       \* status codes of the responses read so far, in order
    hint,           \* hint of the latest attempt while a wait is set up
    delay,          \* delay computed for the pending wait
    err,            \* error returned by the latest attempt
    lastErr,        \* lastErr of retryConfig.do
    ret,            \* error returned to the caller (meaningful at pc = "done")
    apiKey,         \* Client.apiKey
    path,           \* path of the endpoint called
    params,         \* the caller's query-parameter mapping
    urls            \* the URLs buildURL has returned, in order

vars == << retry, pc, method, hasResult, target, ctxDone, cancelAt, attempt,
           attempts, reached, bodyConsumed, resp, statuses, hint, delay, err,
           lastErr, ret, apiKey, path, params, urls >>

\* The client the calls are made on (baseURL: no WithBaseURL option).
Client == [apiKey |-> apiKey, baseURL |-> defaultBaseURL]

\* State after NewClient(apiKey, opts...): the options fix c.retry.
Init ==
    /\ retry \in RetryConfigs
    /\ pc = "idle"
    /\ method = ""
    /\ hasResult = FALSE
    /\ target = "unset"
    /\ ctxDone = FALSE
    /\ cancelAt = "none"
    /\ attempt = 0
    /\ attempts = 0
    /\ reached = 0
    /\ bodyConsumed = FALSE
    /\ resp = <<>>
    /\ statuses = <<>>
    /\ hint = <<>>
    /\ delay = 0
    /\ err = Nil
    /\ lastErr = Nil
    /\ ret = Nil
    /\ apiKey = <<"k">>
    /\ path = ""
    /\ params = NilValues
    /\ urls = <<>>

\* Client.do once the request exists: with a retry configuration the loop of
\* retryConfig.do starts, without one execute() runs.
EnterDo == IF retry # <<>> THEN "loop" ELSE "execute"

\* Client.doGet(ctx, path, params, result).  requestOK: whether
\* http.NewRequestWithContext accepts the URL.
doGet(withResult, requestOK) ==
    /\ pc = "idle"
    /\ method' = "GET"
    /\ path' = "/v1/geocode/search"
    /\ urls' = Append(urls, buildURL(Client, path', params).url)
    /\ params' = buildURL(Client, path', params).params
    /\ hasResult' = withResult
    /\ IF requestOK
       THEN pc' = EnterDo /\ ret' = ret
       ELSE pc' = "done" /\ ret' = Err("creating request", "url")
    /\ UNCHANGED << apiKey, retry, target, ctxDone, cancelAt, attempt, attempts, reached,
                    bodyConsumed, resp, hint, delay, err, lastErr, statuses >>

\* Client.doPost(ctx, path, params, body, result).  marshalOK: whether
\* json.Marshal(body) succeeds.
doPost(withResult, marshalOK, requestOK) ==
    /\ pc = "idle"
    /\ method' = "POST"
    /\ path' = "/v1/geocode/search"
    /\ urls' = Append(urls, buildURL(Client, path', params).url)
    /\ params' = buildURL(Client, path', params).params
    /\ hasResult' = withResult
    /\ IF ~marshalOK
       THEN pc' = "done" /\ ret' = Err("marshaling request body", "json")
       ELSE IF ~requestOK
       THEN pc' = "done" /\ ret' = Err("creating request", "url")
       ELSE pc' = EnterDo /\ ret' = ret
    /\ UNCHANGED << apiKey, retry, target, ctxDone, cancelAt, attempt, attempts, reached,
                    bodyConsumed, resp, hint, delay, err, lastErr, statuses >>

\* --------------------------------------------------- the attempt's return

\* Returned with lastErr keeping the first failure of the call.
Returned_KeepsFirstError(o) ==
    IF retry = <<>>
    THEN LET x == execute(o, hasResult)
         IN  /\ err' = x.err
             /\ ret' = x.err
             /\ target' = IF x.write = "keep" THEN target ELSE x.write
             /\ pc' = "done"
             /\ UNCHANGED << lastErr, hint, delay >>
    ELSE LET x == retryFn(o, hasResult)
             first == IF lastErr = Nil THEN x.err ELSE lastErr
         IN  /\ err' = x.err
             /\ target' = IF x.write = "keep" THEN target ELSE x.write
             /\ IF x.err = Nil
                THEN /\ ret' = Nil
                     /\ pc' = "done"
                     /\ UNCHANGED << lastErr, hint, delay >>
                ELSE /\ lastErr' = first
                     /\ IF breaks(retry[1], attempt, x.hint)
                        THEN /\ ret' = first
                             /\ pc' = "done"
                             /\ UNCHANGED << hint, delay >>
                        ELSE /\ \E j \in 0..JitterDen :
                                   delay' = calculateDelay(retry[1], attempt, x.hint, j)
                             /\ hint' = x.hint
                             /\ pc' = "select"
                             /\ UNCHANGED ret

\* What follows the return of one attempt with the outcome o.  Without a
\* retry configuration Client.do returns execute()'s error.  With one, the
\* body of the loop of retryConfig.do runs: success returns nil; a failure
\* is kept in lastErr and either ends the loop (return lastErr) or sets up
\* the wait with the delay calculateDelay computes.
Returned(o) ==
    IF retry = <<>>
    THEN LET x == execute(o, hasResult)
         IN  /\ err' = x.err
             /\ ret' = x.err
             /\ target' = IF x.write = "keep" THEN target ELSE x.write
             /\ pc' = "done"
             /\ UNCHANGED << lastErr, hint, delay >>
    ELSE LET x == retryFn(o, hasResult)
         IN  /\ err' = x.err
             /\ target' = IF x.write = "keep" THEN target ELSE x.write
             /\ IF x.err = Nil
                THEN /\ ret' = Nil
                     /\ pc' = "done"
                     /\ UNCHANGED << lastErr, hint, delay >>
                ELSE /\ lastErr' = x.err
                     /\ IF breaks(retry[1], attempt, x.hint)
                        THEN /\ ret' = x.err
                             /\ pc' = "done"
                             /\ UNCHANGED << hint, delay >>
                        ELSE /\ \E j \in 0..JitterDen :
                                   delay' = calculateDelay(retry[1], attempt, x.hint, j)
                             /\ hint' = x.hint
                             /\ pc' = "select"
                             /\ UNCHANGED ret

\* AtDispatch of a loop that sends the next request while the wait for it
\* is still set up or pending.
AtDispatch_DuringWait ==
    \/ pc = "execute"
    \/ pc = "loop" /\ attempt < retry[1].maxRetries + 1
    \/ pc \in {"select", "waiting"} /\ attempts <= retry[1].maxRetries

\* AtDispatch of a client that, without a retry configuration, sends a
\* second request after a retryable failure.
AtDispatch_RetryUnconfigured ==
    \/ pc = "execute"
    \/ pc = "loop" /\ attempt < retry[1].maxRetries + 1
    \/ /\ pc = "done" /\ retry = <<>> /\ attempts = 1
       /\ IsAPIError(ret) /\ isRetryable(ret.StatusCode)

\* The call is about to invoke c.httpClient.Do: execute() without a retry
\* configuration, the next iteration of `for attempt := range r.maxRetries + 1`
\* with one.
AtDispatch ==
    \/ pc = "execute"
    \/ pc = "loop" /\ attempt < retry[1].maxRetries + 1

\* The range of the loop is exhausted before an iteration runs (only a
\* negative maxRetries gets here): retryConfig.do returns lastErr.
LoopExit ==
    /\ pc = "loop"
    /\ ~(attempt < retry[1].maxRetries + 1)
    /\ ret' = lastErr
    /\ pc' = "done"
    /\ UNCHANGED << apiKey, path, params, urls, retry, method, hasResult, target, ctxDone, cancelAt, attempt,
                    attempts, reached, bodyConsumed, resp, hint, delay, err, lastErr, statuses >>

\* c.httpClient.Do(req) with a context that is already cancelled: the
\* transport returns the context's error without sending anything.
DispatchCancelled ==
    /\ AtDispatch
    /\ ctxDone
    /\ attempts' = attempts + 1
    /\ resp' = <<>>
    /\ Returned(DoFailed("ctx"))
    /\ UNCHANGED << apiKey, path, params, urls, retry, method, hasResult, ctxDone, cancelAt, attempt,
                    reached, bodyConsumed, statuses >>

\* c.httpClient.Do(req) on the request of an earlier attempt of a POST: the
\* strings.Reader of client.go:88 is at its end, so the transport finds fewer
\* bytes than ContentLength and fails before anything is sent.  (On a reused
\* keep-alive connection the transport rewinds the body through GetBody and
\* sends the request after all: that is action Dispatch.)
DispatchBodyConsumed ==
    /\ AtDispatch
    /\ ~ctxDone
    /\ method = "POST" /\ bodyConsumed
    /\ attempts' = attempts + 1
    /\ resp' = <<>>
    /\ Returned(DoFailed("body"))
    /\ UNCHANGED << apiKey, path, params, urls, retry, method, hasResult, ctxDone, cancelAt, attempt,
                    reached, bodyConsumed, statuses >>

\* c.httpClient.Do(req) sends the request: the round trip is pending.
Dispatch ==
    /\ AtDispatch
    /\ ~ctxDone
    /\ attempts' = attempts + 1
    /\ bodyConsumed' = (method = "POST")
    /\ resp' = <<>>
    /\ pc' = "inflight"
    /\ UNCHANGED << apiKey, path, params, urls, retry, method, hasResult, target, ctxDone, cancelAt, attempt,
                    reached, hint, delay, err, lastErr, ret, statuses >>

\* The round trip fails in the transport (connection refused, reset, ...).
TransportFail ==
    /\ pc = "inflight"
    /\ Returned(DoFailed("net"))
    /\ UNCHANGED << apiKey, path, params, urls, retry, method, hasResult, ctxDone, cancelAt, attempt,
                    attempts, reached, bodyConsumed, resp, statuses >>

\* The server answers, and reading the body fails.
ReadFail ==
    /\ pc = "inflight"
    /\ reached' = reached + 1
    /\ Returned(ReadFailed("net"))
    /\ UNCHANGED << apiKey, path, params, urls, retry, method, hasResult, ctxDone, cancelAt, attempt,
                    attempts, bodyConsumed, resp, statuses >>

\* The server answers with statusCode, body and the Retry-After header
\* retryAfter, and the body is read to its end.
Respond(statusCode, body, retryAfter) ==
    /\ pc = "inflight"
    /\ reached' = reached + 1
    /\ resp' = << Response(statusCode, body, retryAfter) >>
    /\ statuses' = Append(statuses, statusCode)
    /\ Returned(Response(statusCode, body, retryAfter))
    /\ UNCHANGED << apiKey, path, params, urls, retry, method, hasResult, ctxDone, cancelAt, attempt,
                    attempts, bodyConsumed >>

\* The caller cancels the context while the round trip (phase "do") or the
\* read of the body (phase "read") is pending: the pending call returns the
\* context's error.
CancelInflight(phase) ==
    /\ pc = "inflight"
    /\ ~ctxDone
    /\ ctxDone' = TRUE
    /\ cancelAt' = "inflight"
    /\ Returned(IF phase = "do" THEN DoFailed("ctx") ELSE ReadFailed("ctx"))
    /\ UNCHANGED << apiKey, path, params, urls, retry, method, hasResult, attempt, attempts, reached,
                    bodyConsumed, resp, statuses >>

\* The caller cancels the context while the call is running its own code:
\* before the call, before an attempt, or between the return of an attempt
\* and the select of retryConfig.do.
Cancel ==
    /\ pc \in {"idle", "execute", "loop", "select"}
    /\ ~ctxDone
    /\ ctxDone' = TRUE
    /\ cancelAt' = pc
    /\ UNCHANGED << apiKey, path, params, urls, retry, pc, method, hasResult, target, attempt, attempts,
                    reached, bodyConsumed, resp, hint, delay, err, lastErr, ret, statuses >>

\* ---------------------------------------------------------------- the wait
\* select { case <-ctx.Done(): return ctx.Err(); case <-time.After(delay): }
\* A case that is ready when the select is entered can be taken at once; with
\* both ready Go takes either.  The timer is ready at entry when the delay is
\* not positive.

\* case <-ctx.Done(), ready at entry.
SelectDone ==
    /\ pc = "select"
    /\ ctxDone
    /\ ret' = CtxErr
    /\ hint' = <<>>
    /\ delay' = 0
    /\ pc' = "done"
    /\ UNCHANGED << apiKey, path, params, urls, retry, method, hasResult, target, ctxDone, cancelAt, attempt,
                    attempts, reached, bodyConsumed, resp, err, lastErr, statuses >>

\* case <-time.After(delay), ready at entry: the loop goes on.
SelectTimer ==
    /\ pc = "select"
    /\ delay <= 0
    /\ attempt' = attempt + 1
    /\ hint' = <<>>
    /\ delay' = 0
    /\ pc' = "loop"
    /\ UNCHANGED << apiKey, path, params, urls, retry, method, hasResult, target, ctxDone, cancelAt,
                    attempts, reached, bodyConsumed, resp, err, lastErr, ret, statuses >>

\* Neither case is ready: the call blocks in the select.
SelectBlock ==
    /\ pc = "select"
    /\ ~ctxDone
    /\ delay > 0
    /\ pc' = "waiting"
    /\ UNCHANGED << apiKey, path, params, urls, retry, method, hasResult, target, ctxDone, cancelAt, attempt,
                    attempts, reached, bodyConsumed, resp, hint, delay, err, lastErr, ret, statuses >>

\* TimerFires of a loop that counts the retries down in the configuration
\* itself instead of counting attempt up.
TimerFires_CountsDownInConfig ==
    /\ pc = "waiting"
    /\ retry' = << [retry[1] EXCEPT !.maxRetries = @ - 1] >>
    /\ hint' = <<>>
    /\ delay' = 0
    /\ pc' = "loop"
    /\ UNCHANGED << apiKey, path, params, urls, method, hasResult, target, ctxDone,
                    cancelAt, attempt, attempts, reached, bodyConsumed, resp, err,
                    lastErr, ret, statuses >>

\* The delay elapses while the call is blocked: the loop goes on.
TimerFires ==
    /\ pc = "waiting"
    /\ attempt' = attempt + 1
    /\ hint' = <<>>
    /\ delay' = 0
    /\ pc' = "loop"
    /\ UNCHANGED << apiKey, path, params, urls, retry, method, hasResult, target, ctxDone, cancelAt,
                    attempts, reached, bodyConsumed, resp, err, lastErr, ret, statuses >>

\* The caller cancels the context while the call is blocked: ctx.Err().
CancelWaiting ==
    /\ pc = "waiting"
    /\ ctxDone' = TRUE
    /\ cancelAt' = "waiting"
    /\ ret' = CtxErr
    /\ hint' = <<>>
    /\ delay' = 0
    /\ pc' = "done"
    /\ UNCHANGED << apiKey, path, params, urls, retry, method, hasResult, target, attempt, attempts, reached,
                    bodyConsumed, resp, err, lastErr, statuses >>

Next ==
    \/ \E withResult \in BOOLEAN, requestOK \in BOOLEAN :
          doGet(withResult, requestOK)
    \/ \E withResult \in BOOLEAN, marshalOK \in BOOLEAN, requestOK \in BOOLEAN :
          doPost(withResult, marshalOK, requestOK)
    \/ LoopExit
    \/ DispatchCancelled
    \/ DispatchBodyConsumed
    \/ Dispatch
    \/ TransportFail
    \/ ReadFail
    \/ \E statusCode \in StatusCodes, body \in Bodies, retryAfter \in RetryAfterValues :
          Respond(statusCode, body, retryAfter)
    \/ \E phase \in {"do", "read"} : CancelInflight(phase)
    \/ Cancel
    \/ SelectDone
    \/ SelectTimer
    \/ SelectBlock
    \/ TimerFires
    \/ CancelWaiting

Spec == Init /\ [][Next]_vars

\* The call under the assumption that it keeps going: a step is taken as long
\* as one can be (every round trip returns, every delay elapses, the
\* client's own code runs on).
FairSpec == Spec /\ WF_vars(Next)

\* ------------------------------------------- calculateDelay on its own

\* Configurations and attempt indexes calculateDelay is applied to in CalcSpec.
CalcDelayPairs == { <<1, 2>>, <<2, 3>>, <<3, 4>>, <<5, 7>> }

CalcInit ==
    /\ retry \in { << [maxRetries |-> MaxMaxRetries,
                       initialDelay |-> d[1], maxDelay |-> d[2]] >> :
                     d \in CalcDelayPairs }
    /\ attempt \in 0..MaxCalcAttempt
    /\ hint \in Hints
    /\ pc = "calc"
    /\ method = ""
    /\ hasResult = FALSE
    /\ target = "unset"
    /\ ctxDone = FALSE
    /\ cancelAt = "none"
    /\ attempts = 0
    /\ reached = 0
    /\ bodyConsumed = FALSE
    /\ resp = <<>>
    /\ statuses = <<>>
    /\ delay = 0
    /\ err = Nil
    /\ lastErr = Nil
    /\ ret = Nil
    /\ apiKey = <<>>
    /\ path = ""
    /\ params = NilValues
    /\ urls = <<>>

\* delay := r.calculateDelay(attempt, hint)
CalcDelay ==
    /\ pc = "calc"
    /\ \E j \in 0..JitterDen : delay' = calculateDelay(retry[1], attempt, hint, j)
    /\ pc' = "calcdone"
    /\ UNCHANGED << apiKey, path, params, urls, retry, method, hasResult, target, ctxDone, cancelAt, attempt,
                    attempts, reached, bodyConsumed, resp, statuses, hint, err,
                    lastErr, ret >>

CalcNext == CalcDelay

CalcSpec == CalcInit /\ [][CalcNext]_vars

\* ---------------------------------------------- newAPIError on its own

\* The response is a failure response with any of ErrorBodies.
ErrInit ==
    /\ resp \in { << Response(s, b, <<>>) >> :
                    s \in { c \in StatusCodes : IsFailureStatus(c) }, b \in ErrorBodies }
    /\ pc = "newAPIError"
    /\ retry = <<>>
    /\ method = ""
    /\ hasResult = FALSE
    /\ target = "unset"
    /\ ctxDone = FALSE
    /\ cancelAt = "none"
    /\ attempt = 0
    /\ attempts = 0
    /\ reached = 0
    /\ bodyConsumed = FALSE
    /\ statuses = <<>>
    /\ hint = <<>>
    /\ delay = 0
    /\ err = Nil
    /\ lastErr = Nil
    /\ ret = Nil
    /\ apiKey = <<>>
    /\ path = ""
    /\ params = NilValues
    /\ urls = <<>>

\* apiErr := newAPIError(resp.StatusCode, respBody)
NewAPIError ==
    /\ pc = "newAPIError"
    /\ err' = newAPIError(resp[1].StatusCode, resp[1].Body)
    /\ pc' = "built"
    /\ UNCHANGED << apiKey, path, params, urls, retry, method, hasResult, target, ctxDone, cancelAt, attempt,
                    attempts, reached, bodyConsumed, resp, statuses, hint, delay,
                    lastErr, ret >>

ErrNext == NewAPIError

ErrSpec == ErrInit /\ [][ErrNext]_vars

\* ------------------------------------------------------- buildURL on its own

\* A client with any credential and a caller about to fill a mapping for a
\* call of any path: params := url.Values{} of the request builders, or nil.
UrlInit ==
    /\ apiKey \in ApiKeys
    /\ path \in Paths
    /\ params \in { NilValues, MakeValues(<<>>) }
    /\ urls = <<>>
    /\ pc = "params"
    /\ retry = <<>>
    /\ method = ""
    /\ hasResult = FALSE
    /\ target = "unset"
    /\ ctxDone = FALSE
    /\ cancelAt = "none"
    /\ attempt = 0
    /\ attempts = 0
    /\ reached = 0
    /\ bodyConsumed = FALSE
    /\ resp = <<>>
    /\ statuses = <<>>
    /\ hint = <<>>
    /\ delay = 0
    /\ err = Nil
    /\ lastErr = Nil
    /\ ret = Nil

\* params.Set(key, value) by the caller, before the call.
ParamsSet(key, value) ==
    /\ pc = "params"
    /\ ~params.nil
    /\ ValuesHas(params.entries, key) \/ Len(params.entries) < MaxParams
    /\ params' = MakeValues(ValuesSet(params.entries, key, value))
    /\ UNCHANGED << apiKey, path, urls, pc, retry, method, hasResult, target,
                    ctxDone, cancelAt, attempt, attempts, reached, bodyConsumed,
                    resp, statuses, hint, delay, err, lastErr, ret >>

\* params.Add("apiKey", value) by the caller: a mapping that holds one or
\* more values under apiKey already.
ParamsAdd(value) ==
    /\ pc = "params"
    /\ ~params.nil
    /\ IF ValuesHas(params.entries, "apiKey")
       THEN Len(ValuesGet(params.entries, "apiKey")) < MaxParams
       ELSE Len(params.entries) < MaxParams
    /\ params' = MakeValues(ValuesAdd(params.entries, "apiKey", value))
    /\ UNCHANGED << apiKey, path, urls, pc, retry, method, hasResult, target,
                    ctxDone, cancelAt, attempt, attempts, reached, bodyConsumed,
                    resp, statuses, hint, delay, err, lastErr, ret >>

\* reqURL := c.buildURL(path, params), on the mapping as the previous call
\* left it.
BuildURL ==
    /\ pc \in {"params", "built"}
    /\ Len(urls) < MaxBuilds
    /\ urls' = Append(urls, buildURL(Client, path, params).url)
    /\ params' = buildURL(Client, path, params).params
    /\ pc' = "built"
    /\ UNCHANGED << apiKey, path, retry, method, hasResult, target,
                    ctxDone, cancelAt, attempt, attempts, reached, bodyConsumed,
                    resp, statuses, hint, delay, err, lastErr, ret >>

UrlNext ==
    \/ \E key \in ParamNames, value \in ParamValues : ParamsSet(key, value)
    \/ \E value \in ParamValues : ParamsAdd(value)
    \/ BuildURL

UrlSpec == UrlInit /\ [][UrlNext]_vars

\* ------------------------------- BatchResultResponse.UnmarshalJSON on its own

\* A JSON value of a batch-result payload: tokens is its text (its first
\* byte, then the rest as one token), doc what encoding/json finds in it.
\* kind: "array", "object", "null", "string", or "invalid" (no JSON value).
\* cities: the city of each element of an array (Address.City); elems: "ok",
\* or "type" when an element is no object.  id, status: the members of an
\* object, as for errResp above.
BatchArray(first, rest, cities, elems) ==
    [tokens |-> <<first, rest>>,
     doc |-> [kind |-> "array", cities |-> cities, elems |-> elems,
              id |-> Absent, status |-> Absent]]
BatchObject(first, rest, id, status) ==
    [tokens |-> <<first, rest>>,
     doc |-> [kind |-> "object", cities |-> <<>>, elems |-> "ok",
              id |-> id, status |-> status]]
BatchOther(tokens, kind) ==
    [tokens |-> tokens,
     doc |-> [kind |-> kind, cities |-> <<>>, elems |-> "ok",
              id |-> Absent, status |-> Absent]]

BatchValues ==
    { BatchArray("[", "{\"city\":\"Berlin\"},{\"city\":\"Paris\"}]", <<"Berlin", "Paris">>, "ok"),
      BatchArray("[", "]", <<>>, "ok"),
      BatchArray("[", "1]", <<"">>, "type"),
      BatchObject("{", "\"id\":\"job-123\",\"status\":\"pending\"}",
                  Str("job-123"), Str("pending")),
      BatchObject("{", "\"id\":\"job-123\",\"status\":\"done\",\"results\":[{\"city\":\"Oslo\"}]}",
                  Str("job-123"), Str("done")),
      BatchObject("{", "\"status\":\"pending\"}", Absent, Str("pending")),
      BatchObject("{", "\"id\":7,\"status\":\"pending\"}", NonStr("number"), Str("pending")),
      BatchOther(<<"[", "{\"city\":">>, "invalid"),
      BatchOther(<<"n", "ull">>, "null"),
      BatchOther(<<"\"", "pending\"">>, "string"),
      BatchOther(<<"p", "ending">>, "invalid"),
      BatchOther(<<>>, "invalid") }

\* Bytes in front of the value: JSON's whitespace, and a form feed, which is
\* none.
BatchPrefixes == { <<>>, <<" ">>, <<"\n", "\t">>, <<"\r", " ", "\n">>, <<"\f">>, <<" ", "\f">> }

JSONWhitespace == {" ", "\t", "\n", "\r"}

\* The payloads handed to UnmarshalJSON.  A byte in front of the value that
\* is no JSON whitespace makes the text invalid.
BatchPayloads ==
    { [text |-> ws \o v.tokens,
       doc |-> IF \A i \in DOMAIN ws : ws[i] \in JSONWhitespace
               THEN v.doc
               ELSE BatchOther(<<>>, "invalid").doc] :
        ws \in BatchPrefixes, v \in BatchValues }

\* var resp BatchResultResponse
NewBatchResultResponse == [ID |-> "", Status |-> "", Results |-> <<>>, Raw |-> <<>>]

\* bytes_trimLeft leaving the slice as it is.
bytes_trimLeft_None(data) == data

\* bytes_trimLeft(data): data from its first byte that is none of ' ', '\t',
\* '\n', '\r'; nil when there is none.
RECURSIVE bytes_trimLeft(_)
bytes_trimLeft(data) ==
    IF data = <<>> THEN <<>>
    ELSE IF Head(data) \notin {" ", "\t", "\n", "\r"} THEN data
    ELSE bytes_trimLeft(Tail(data))

\* json.Unmarshal(data, &r.Results): a syntax error leaves the slice alone;
\* an array is decoded element by element, an element of the wrong type
\* leaving a zero Address and an UnmarshalTypeError.
UnmarshalResults(payload, results) ==
    CASE payload.doc.kind = "array" ->
            [err |-> IF payload.doc.elems = "ok" THEN Nil
                     ELSE Err("decoding response", "json"),
             Results |-> payload.doc.cities]
      [] payload.doc.kind = "null" -> [err |-> Nil, Results |-> <<>>]
      [] payload.doc.kind = "invalid" ->
            [err |-> Err("decoding response", "json"), Results |-> results]
      [] OTHER -> [err |-> Err("decoding response", "json"), Results |-> results]

\* json.Unmarshal(data, &obj), obj embedding the alias type: ID and Status
\* are read, Results and Raw carry the tag "-".
UnmarshalAlias(payload) ==
    CASE payload.doc.kind = "object" ->
            [err |-> IF FieldMismatch(payload.doc.id) \/ FieldMismatch(payload.doc.status)
                     THEN Err("decoding response", "json") ELSE Nil,
             ID |-> FieldStored(payload.doc.id),
             Status |-> FieldStored(payload.doc.status)]
      [] payload.doc.kind = "null" -> [err |-> Nil, ID |-> "", Status |-> ""]
      [] OTHER -> [err |-> Err("decoding response", "json"), ID |-> "", Status |-> ""]

\* (r *BatchResultResponse) UnmarshalJSON(data): the error it returns and r
\* after the call.
UnmarshalJSON(r, data) ==
    LET raw == [r EXCEPT !.Raw = data.text]
        trimmed == bytes_trimLeft(data.text)
    IN  IF Len(trimmed) > 0 /\ trimmed[1] = "["
        THEN LET u == UnmarshalResults(data, raw.Results)
             IN  [err |-> u.err, r |-> [raw EXCEPT !.Results = u.Results]]
        ELSE LET obj == UnmarshalAlias(data)
             IN  IF obj.err # Nil
                 THEN [err |-> obj.err, r |-> raw]
                 ELSE [err |-> Nil,
                       r |-> [raw EXCEPT !.ID = obj.ID, !.Status = obj.Status]]

\* A payload and a new BatchResultResponse as the decode target
\* (BatchResultRequest.Do).
BatchInit ==
    /\ resp \in { << Response(200, payload, <<>>) >> : payload \in BatchPayloads }
    /\ target = NewBatchResultResponse
    /\ pc = "UnmarshalJSON"
    /\ hasResult = TRUE
    /\ retry = <<>>
    /\ method = ""
    /\ ctxDone = FALSE
    /\ cancelAt = "none"
    /\ attempt = 0
    /\ attempts = 0
    /\ reached = 0
    /\ bodyConsumed = FALSE
    /\ statuses = <<>>
    /\ hint = <<>>
    /\ delay = 0
    /\ err = Nil
    /\ lastErr = Nil
    /\ ret = Nil
    /\ apiKey = <<>>
    /\ path = ""
    /\ params = NilValues
    /\ urls = <<>>

\* err := resp.UnmarshalJSON(data)
BatchUnmarshal ==
    /\ pc = "UnmarshalJSON"
    /\ target' = UnmarshalJSON(target, resp[1].Body).r
    /\ err' = UnmarshalJSON(target, resp[1].Body).err
    /\ pc' = "unmarshalled"
    /\ UNCHANGED << apiKey, path, params, urls, retry, method, hasResult, ctxDone,
                    cancelAt, attempt, attempts, reached, bodyConsumed, resp,
                    statuses, hint, delay, lastErr, ret >>

BatchNext == BatchUnmarshal

BatchSpec == BatchInit /\ [][BatchNext]_vars

\* =================================================================== claims

\* The retryable statuses of the specification: 429 and 5xx.
RetryableStatus(s) == s = 429 \/ (500 <= s /\ s <= 599)

SuccessStatus(s) == 200 <= s /\ s < 300

\* The message the specification gives an APIError: the JSON field message,
\* else the JSON field error, else the body as text.
NonEmptyString(f) == f.type = "string" /\ f.value # ""

SpecMessage(body) ==
    IF body.doc.kind = "object" /\ NonEmptyString(body.doc.message)
    THEN body.doc.message.value
    ELSE IF body.doc.kind = "object" /\ NonEmptyString(body.doc.error)
    THEN body.doc.error.value
    ELSE body.text

Configured == retry # <<>>

\* The call was not cancelled and no attempt failed in the network: whatever
\* ended an attempt other than a response came from the client itself.
Undisturbed == ~ctxDone /\ ret.cause # "net"

\* C1: with maxRetries = N >= 0 and a server that answers every request with
\* 500, a call (GET or POST) ends after exactly N+1 attempts have reached the
\* server, with an APIError of status 500.
C1_AlwaysServerErrorTakesAllAttempts ==
    ( /\ pc = "done"
      /\ Configured
      /\ method \in Methods
      /\ ret.kind \notin {"creating request", "marshaling request body"}
      /\ Undisturbed
      /\ \A i \in 1..Len(statuses) : statuses[i] = 500 )
    => ( /\ retry[1].maxRetries >= 0
            => ( /\ reached = retry[1].maxRetries + 1
                 /\ IsAPIError(ret)
                 /\ ret.StatusCode = 500 ) )

\* The same for GET calls alone.
C1_GetAlwaysServerError ==
    method = "GET" => C1_AlwaysServerErrorTakesAllAttempts

\* C2: for k <= maxRetries, when the first k responses have a retryable
\* status (429 or 5xx) and response k+1 has a 2xx status and a body that
\* decodes, the call has returned success after exactly k+1 attempts and the
\* decode target holds the value of the last body.
C2_SuccessAfterRetries ==
    \A k \in 0..MaxMaxRetries :
        ( /\ Configured
          /\ k <= retry[1].maxRetries
          /\ Len(statuses) = k + 1
          /\ \A i \in 1..k : RetryableStatus(statuses[i])
          /\ SuccessStatus(statuses[k + 1])
          /\ resp # <<>>
          /\ (hasResult => resp[1].Body.decode = "ok") )
        => ( /\ pc = "done"
             /\ ret = Nil
             /\ attempts = k + 1
             /\ reached = k + 1
             /\ (hasResult => target = resp[1].Body.text) )

\* 429, 429, 200 {"ok":true} under maxRetries = 2: success, three attempts.
C2_Witness ==
    /\ pc = "done"
    /\ statuses = <<429, 429, 200>>
    /\ attempts = 3
    /\ ret = Nil
    /\ hasResult
    /\ target = "{\"ok\":true}"

\* C3: a call whose first response has a 4xx status other than 429 makes
\* exactly one attempt, whatever the retry configuration, and returns the
\* APIError of that response: its status code and its extracted message.
C3_ClientErrorNeverRetried ==
    ( /\ statuses # <<>>
      /\ 400 <= statuses[1] /\ statuses[1] <= 499
      /\ statuses[1] # 429 )
    => ( /\ pc = "done"
         /\ attempts = 1
         /\ statuses = << resp[1].StatusCode >>
         /\ IsAPIError(ret)
         /\ ret.StatusCode = statuses[1]
         /\ ret.Message = SpecMessage(resp[1].Body) )

\* 401 {"message":"Invalid key"} with retries left: one attempt.
C3_Witness ==
    /\ pc = "done"
    /\ Configured
    /\ retry[1].maxRetries = MaxMaxRetries
    /\ statuses = <<401>>
    /\ attempts = 1
    /\ ret.StatusCode = 401
    /\ ret.Message = "Invalid key"

\* C4: a status is retried if and only if it is 429 or in 500..599; any other
\* non-2xx status (1xx, 3xx, 4xx but 429, 600 and above) ends the call at
\* once with the APIError of that response.
C4_RetryableIff429Or5xx ==
    ( /\ resp # <<>>
      /\ Configured
      /\ ~SuccessStatus(resp[1].StatusCode) )
    => IF RetryableStatus(resp[1].StatusCode)
       THEN ( attempt < retry[1].maxRetries /\ ~ctxDone) => pc # "done"
       ELSE ( /\ pc = "done"
              /\ IsAPIError(ret)
              /\ ret.StatusCode = resp[1].StatusCode
              /\ attempts = Len(statuses) )

\* A wait is set up: its delay has been computed from attempt and hint.
WaitSetUp == pc \in {"select", "waiting"}

\* The Retry-After value is a non-negative integer: one or more digits.
NonNegativeInteger(ra) == ra # <<>> /\ \A i \in 1..Len(ra) : ra[i] \in Digits

\* C5: when the retryable response carries a Retry-After value that is a
\* non-negative integer s, the delay before the next attempt is exactly s
\* seconds: no jitter, no exponential factor, no cap by maxDelay.
C5_RetryAfterIsTheDelay ==
    ( /\ WaitSetUp
      /\ hint # <<>>
      /\ NonNegativeInteger(hint[1].retryAfter) )
    => delay = DecimalValue(hint[1].retryAfter) * Second

\* min(D * 2^k, M)
CappedBackoff(D, M, k) == IF D * (2^k) > M THEN M ELSE D * (2^k)

NoRetryAfter == hint = <<>> \/ hint[1].retryAfter = <<>>

\* C6: without a retry-after hint the delay for attempt k lies in
\* [0.5 * min(D*2^k, M), min(D*2^k, M)], for every jitter draw.
C6_DelayWithinHalfToFullBackoff ==
    (pc = "calcdone" /\ NoRetryAfter)
    => LET b == CappedBackoff(retry[1].initialDelay, retry[1].maxDelay, attempt)
       IN  2 * delay >= b /\ delay <= b

\* C6 as amended: the delay is a whole number of ticks, the jittered backoff
\* truncated, so it lies in [floor(0.5 * min(D*2^k, M)), min(D*2^k, M)].
C6_DelayWithinTruncatedHalfToFullBackoff ==
    (pc = "calcdone" /\ NoRetryAfter)
    => LET b == CappedBackoff(retry[1].initialDelay, retry[1].maxDelay, attempt)
       IN  delay >= b \div 2 /\ delay <= b

\* The backoff 2 * 2^1 is capped at 3 and the lowest draw truncates 1.5 to 1.
C6_Witness ==
    /\ pc = "calcdone"
    /\ NoRetryAfter
    /\ retry[1].initialDelay = 2 /\ retry[1].maxDelay = 3
    /\ attempt = 1
    /\ delay = 1

\* C7: the wait between two attempts never exceeds maxDelay, whatever the
\* attempt index and the retry hint, a Retry-After value included.
C7_WaitNeverExceedsMaxDelay ==
    WaitSetUp => delay <= retry[1].maxDelay

\* C8: when the context is cancelled while a retry wait is pending (also when
\* it is already cancelled as the wait begins, and when the delay is zero),
\* the call ends with the context's error, not the last HTTP error, and no
\* further attempt is dispatched.
C8_CancelDuringWaitEndsCall ==
    cancelAt \in {"select", "waiting"}
    => ( /\ pc \in {"select", "done"}
         /\ attempts = Len(statuses)
         /\ (pc = "done" => ret = CtxErr) )

\* C9: a call whose context is cancelled before or during a round trip or
\* during a wait ends with an error that is a cancellation error and no
\* APIError, never with success; a call started with a cancelled context
\* returns an error.
C9_CancelledCallFailsWithCancellation ==
    (pc = "done" /\ cancelAt # "none")
    => ( /\ ret # Nil
         /\ ~IsAPIError(ret)
         /\ (attempts > 0 => IsCancellation(ret)) )

\* C10: with or without a retry configuration, an attempt that read a
\* response of status s is a success if and only if 200 <= s < 300; for any
\* other s its error is an APIError with status code s and the body's bytes.
C10_SuccessIff2xx ==
    resp # <<>>
    => ( /\ (err = Nil) <=> SuccessStatus(resp[1].StatusCode)
         /\ ~SuccessStatus(resp[1].StatusCode)
               => ( /\ IsAPIError(err)
                    /\ err.StatusCode = resp[1].StatusCode
                    /\ err.RawBody = resp[1].Body.text ) )

\* C10 as amended: the error is an APIError if and only if s is outside
\* [200, 300), then with status code s and the body's bytes; for s inside,
\* the attempt succeeds when the body decodes into the target or there is no
\* target, and returns a decoding error otherwise.
C10_APIErrorIffNot2xx ==
    resp # <<>>
    => ( /\ IsAPIError(err) <=> ~SuccessStatus(resp[1].StatusCode)
         /\ ~SuccessStatus(resp[1].StatusCode)
               => ( /\ err.StatusCode = resp[1].StatusCode
                    /\ err.RawBody = resp[1].Body.text )
         /\ SuccessStatus(resp[1].StatusCode)
               => ( /\ (err = Nil) <=> (~hasResult \/ resp[1].Body.decode = "ok")
                    /\ err # Nil => err.kind = "decoding response" ) )

\* Status 300, just above the success range, without a retry configuration.
C10_Witness ==
    /\ pc = "done"
    /\ ~Configured
    /\ resp # <<>>
    /\ resp[1].StatusCode = 300
    /\ IsAPIError(ret)
    /\ ret.StatusCode = 300
    /\ ret.RawBody = "Service Unavailable"

\* C11: the message of an APIError is the non-empty string member message of
\* the body when the body is a JSON object; else the non-empty string member
\* error of that object; else the body as text.
C11_MessagePriority ==
    pc = "built" => err.Message = SpecMessage(resp[1].Body)

\* The same for the bodies json.Unmarshal accepts into errResp: objects whose
\* message and error members are strings, null or absent, and anything that
\* is not an object.
C11_MessagePriorityWellTyped ==
    ( /\ pc = "built"
      /\ ~FieldMismatch(resp[1].Body.doc.message)
      /\ ~FieldMismatch(resp[1].Body.doc.error) )
    => err.Message = SpecMessage(resp[1].Body)

\* The query string of a URL, read back as a server reads it: what follows
\* the '?', cut at every '&', each piece cut at its first '=', the value
\* percent-decoded.
QueryOf(u) == SubSeq(u, 4, Len(u))

FirstIndex(s, c) ==
    IF \E i \in DOMAIN s : s[i] = c
    THEN CHOOSE i \in DOMAIN s : s[i] = c /\ \A j \in 1..(i - 1) : s[j] # c
    ELSE 0

RECURSIVE Pieces(_)
Pieces(s) ==
    IF s = <<>> THEN <<>>
    ELSE LET i == FirstIndex(s, "&")
         IN  IF i = 0 THEN << s >>
             ELSE << SubSeq(s, 1, i - 1) >> \o Pieces(SubSeq(s, i + 1, Len(s)))

Unescaped(s) ==
    [i \in DOMAIN s |->
        CASE s[i] = "%26" -> "&"
          [] s[i] = "%3D" -> "="
          [] OTHER -> s[i]]

ParsedPair(piece) ==
    LET i == FirstIndex(piece, "=")
    IN  IF i = 0 THEN [key |-> piece, value |-> <<>>]
        ELSE [key |-> SubSeq(piece, 1, i - 1),
              value |-> Unescaped(SubSeq(piece, i + 1, Len(piece)))]

ParsedQuery(u) ==
    LET pieces == Pieces(QueryOf(u))
    IN  [i \in DOMAIN pieces |-> ParsedPair(pieces[i])]

\* The positions of the parameter apiKey in a parsed query.
ApiKeyAt(q) == { i \in DOMAIN q : q[i].key = <<"apiKey">> }

\* C12: every URL buildURL returns holds the parameter apiKey exactly once,
\* with the client's credential as its value, whatever mapping the caller
\* passed: nil, empty, or one with values under apiKey already.
C12_ApiKeyExactlyOnce ==
    \A n \in DOMAIN urls :
        LET q == ParsedQuery(urls[n])
        IN  /\ Cardinality(ApiKeyAt(q)) = 1
            /\ \A i \in ApiKeyAt(q) : q[i].value = apiKey

\* A credential with '&' and '=' in it, and a mapping in which the caller
\* had put apiKey before lat (buildURL puts a new key after the others): the
\* caller's values are gone.
C12_Witness ==
    /\ pc = "built"
    /\ Len(urls) = 1
    /\ apiKey = <<"k", "&", "apiKey", "=", "x">>
    /\ InsertedKeys(params.entries) = <<"apiKey", "lat">>
    /\ urls[1] = << defaultBaseURL, "/v1/routing", "?",
                    "apiKey", "=", "k", "%26", "apiKey", "%3D", "x",
                    "&", "lat", "=", "1" >>

\* C13: in the query string of every URL buildURL returns apiKey is the last
\* parameter, every parameter of the caller before it.
C13_ApiKeyLast ==
    \A n \in DOMAIN urls :
        LET q == ParsedQuery(urls[n])
        IN  q # <<>> /\ q[Len(q)].key = <<"apiKey">>

\* C13, amended: the parameters stand in the byte order of their names, so
\* apiKey stands after the caller's parameters whose names sort before
\* "apiKey" and before all the others.
C13_ParametersInKeyOrder ==
    \A n \in DOMAIN urls :
        LET q == ParsedQuery(urls[n])
        IN  \A i, j \in DOMAIN q :
                i < j => KeyRank(q[i].key[1]) <= KeyRank(q[j].key[1])

\* address, apiKey, lat: apiKey in the middle, whatever the caller's order.
C13_Witness ==
    /\ pc = "built"
    /\ InsertedKeys(params.entries) = <<"lat", "address", "apiKey">>
    /\ Len(urls) = 1
    /\ LET q == ParsedQuery(urls[1])
       IN  [i \in DOMAIN q |-> q[i].key[1]] = <<"address", "apiKey", "lat">>

\* The mappings with the entries of ps, in every order.
Reorderings(ps) ==
    LET n == Len(ps.entries)
        perms == { f \in [1..n -> 1..n] : \A i, j \in 1..n : i # j => f[i] # f[j] }
    IN  { [nil |-> ps.nil, entries |-> [i \in 1..n |-> ps.entries[f[i]]]] :
            f \in perms }

\* C14: the URL is the same each time it is built from the same client, path
\* and parameters: built again from the mapping the first call was given,
\* and built from the same parameters inserted in any other order.
C14_SameInputsSameURL ==
    \A n \in DOMAIN urls :
        \A ps \in Reorderings(params) :
            buildURL(Client, path, ps).url = urls[n]

\* Two URLs built from one mapping of the caller's lat and address.
C14_Witness ==
    /\ Len(urls) = 2
    /\ InsertedKeys(params.entries) = <<"lat", "address", "apiKey">>
    /\ urls[1] = urls[2]

\* The errors of an attempt that are not an HTTP failure: c.httpClient.Do
\* failed, reading the body failed, or the 2xx body did not decode.
NonHTTPError(e) ==
    e.kind \in {"executing request", "reading response", "decoding response"}

\* C15: under a retry configuration an attempt that fails with an error that
\* is not an HTTP failure is the last step of the call: no attempt and no
\* wait follows, the call returns that error, and it is no APIError.
C15_NonHTTPErrorEndsCall ==
    (Configured /\ NonHTTPError(err))
    => ( /\ pc = "done"
         /\ ret = err
         /\ ~IsAPIError(ret) )

\* A 2xx body that does not decode, first attempt, all retries left.
C15_Witness ==
    /\ Configured
    /\ retry[1].maxRetries = MaxMaxRetries
    /\ pc = "done"
    /\ attempts = 1
    /\ statuses = <<200>>
    /\ ret.kind = "decoding response"

\* The call failed before Client.do: no request to dispatch.
NoRequest == ret.kind \in {"creating request", "marshaling request body"}

\* C16: a client without a retry configuration never waits and never makes
\* a second attempt; a call that gets as far as Client.do returns after
\* exactly one attempt, whatever the response.
C16_NoRetryConfigOneAttempt ==
    ~Configured
    => ( /\ pc \notin {"loop", "select", "waiting"}
         /\ attempts <= 1
         /\ Len(statuses) <= 1
         /\ (pc = "done" /\ ~NoRequest) => attempts = 1 )

\* 429 with Retry-After: 2, no retry configuration.
C16_Witness ==
    /\ ~Configured
    /\ pc = "done"
    /\ attempts = 1
    /\ statuses = <<429>>
    /\ resp[1].RetryAfter = <<"2">>
    /\ IsAPIError(ret)

\* The call has returned from Client.do.
Finished == pc = "done" /\ attempts >= 1

\* The last permitted attempt failed with a failure the client retries.
Exhausted ==
    /\ Configured
    /\ attempt = retry[1].maxRetries
    /\ IsAPIError(err)
    /\ isRetryable(err.StatusCode)

\* C17: a call that fails returns the error of its final attempt or the
\* cancellation error: never nil after a failed final attempt, never the
\* error of an earlier attempt; with the retries exhausted, the APIError of
\* the last response received.
C17_ReturnsFinalError ==
    Finished
    => ( /\ ret = err \/ ret = CtxErr
         /\ err # Nil => ret # Nil
         /\ (Exhausted /\ ret # CtxErr)
            => ( /\ IsAPIError(ret)
                 /\ ret.StatusCode = statuses[Len(statuses)]
                 /\ ret.RawBody = resp[1].Body.text ) )

\* 429 then 500 with one retry: the APIError of the 500.
C17_Witness ==
    /\ Finished
    /\ Exhausted
    /\ retry[1].maxRetries = 1
    /\ statuses = <<429, 500>>
    /\ ret.StatusCode = 500
    /\ ret.Message = "Service Unavailable"

\* C18: the decode target is written only by an attempt that received a 2xx
\* status, and that attempt is the last one.  So the target is untouched
\* while a call goes on and after it returns an APIError or a cancellation
\* error, and after a success it holds the body of the final response.
C18_TargetWrittenOnlyBy2xx ==
    /\ target # "unset"
       => ( /\ pc = "done"
            /\ hasResult
            /\ resp # <<>>
            /\ SuccessStatus(resp[1].StatusCode) )
    /\ (pc = "done" /\ (IsAPIError(ret) \/ IsCancellation(ret)))
       => target = "unset"
    /\ (Finished /\ ret = Nil /\ hasResult)
       => target = resp[1].Body.text

\* 500, then a wait, then 200: the target holds the body of the 200.
C18_Witness ==
    /\ Finished
    /\ Configured
    /\ hasResult
    /\ statuses = <<500, 200>>
    /\ ret = Nil
    /\ target = "{\"message\":\"Invalid key\"}"

\* The number of consecutive retryable failures (429 or 5xx) from the first
\* attempt on: the responses before the first one that is none.  (An attempt
\* that ends without a response ends the call.)
RECURSIVE LeadingRetryable(_)
LeadingRetryable(ss) ==
    IF ss = <<>> \/ ~RetryableStatus(Head(ss)) THEN 0
    ELSE 1 + LeadingRetryable(Tail(ss))

Min(a, b) == IF a <= b THEN a ELSE b

\* C19: under a retry configuration with maxRetries N >= 0 a call that is
\* not cancelled makes 1 + min(r, N) attempts, r the number of consecutive
\* retryable failures from the first attempt on.
C19_AttemptsOnePlusMinRetryableN ==
    ( /\ Finished
      /\ Configured
      /\ retry[1].maxRetries >= 0
      /\ ~ctxDone )
    => attempts = 1 + Min(LeadingRetryable(statuses), retry[1].maxRetries)

\* The same with every status below 600.
C19_AttemptsBelow600 ==
    ( /\ Finished
      /\ Configured
      /\ retry[1].maxRetries >= 0
      /\ ~ctxDone
      /\ \A i \in DOMAIN statuses : statuses[i] < 600 )
    => attempts = 1 + Min(LeadingRetryable(statuses), retry[1].maxRetries)

\* The max retry count of the call: none without a retry configuration.
MaxRetryCount == IF Configured THEN retry[1].maxRetries ELSE 0

\* The four outcomes of a call, as the specification describes them.
\* Succeeded: a 2xx response was received (and decoded).
Succeeded ==
    /\ ret = Nil
    /\ attempts >= 1
    /\ resp # <<>>
    /\ SuccessStatus(resp[1].StatusCode)

\* Cancelled: the cancellation error is surfaced.
Cancelled == IsCancellation(ret)

\* Failed-Exhausted: the last permitted attempt failed with a retryable
\* status; its APIError is surfaced.
FailedExhausted ==
    /\ IsAPIError(ret)
    /\ RetryableStatus(ret.StatusCode)
    /\ attempts = MaxRetryCount + 1

\* Failed-Permanent: an error that is not retryable is surfaced.
FailedPermanent ==
    /\ ret # Nil
    /\ ~IsCancellation(ret)
    /\ ~(IsAPIError(ret) /\ RetryableStatus(ret.StatusCode))

Outcomes ==
    { o \in {"Succeeded", "Cancelled", "Failed-Exhausted", "Failed-Permanent"} :
        \/ o = "Succeeded" /\ Succeeded
        \/ o = "Cancelled" /\ Cancelled
        \/ o = "Failed-Exhausted" /\ FailedExhausted
        \/ o = "Failed-Permanent" /\ FailedPermanent }

Terminated ==
    /\ pc = "done"
    /\ Cardinality(Outcomes) = 1
    /\ attempts <= MaxRetryCount + 1

\* C20: every call terminates, in exactly one of the outcomes Succeeded,
\* Failed-Permanent, Failed-Exhausted and Cancelled, after at most
\* max retry count + 1 attempts.
C20_TerminatesInOneOutcome == <>[]Terminated

\* The same for clients with a max retry count that is not negative.
C20_TerminatesNonNegative == (MaxRetryCount >= 0) => <>[]Terminated

\* The attempts never exceed max retry count + 1 (no attempt for -1).
C20_AttemptsBounded == attempts <= (IF MaxRetryCount < 0 THEN 0 ELSE MaxRetryCount + 1)

\* C21: a call leaves the caller's query-parameter mapping as it was: the
\* step that builds the request URL of doGet / doPost changes neither its
\* keys nor its values.
C21_CallLeavesParamsUnchanged ==
    [][Len(urls') > Len(urls) => params' = params]_vars

\* The same for the mappings buildURL does not write to (nil) or writes the
\* value to that is there already.
C21_NilOrKeyedParamsUnchanged ==
    [][( /\ Len(urls') > Len(urls)
         /\ \/ params.nil
            \/ /\ ValuesHas(params.entries, "apiKey")
               /\ ValuesGet(params.entries, "apiKey") = <<apiKey>> )
       => params' = params]_vars

FinalResponseNon2xx == resp # <<>> /\ ~SuccessStatus(resp[1].StatusCode)

\* C24: IsAPIError is true of every error a call returns when its final
\* response was no 2xx, with and without a retry configuration, and false
\* of nil and of every transport, read, decode and cancellation error.
C24_IsAPIErrorIffFinalNon2xx ==
    pc = "done"
    => ( /\ FinalResponseNon2xx => IsAPIError(ret)
         /\ (ret = Nil \/ NonHTTPError(ret) \/ IsCancellation(ret)) => ~IsAPIError(ret) )

\* C24, amended: as above, but for a call that was cancelled in the wait
\* after its final response: it returns the cancellation error, of which
\* IsAPIError is false.  Where IsAPIError is true the error is the APIError of
\* the final response.
C24_IsAPIErrorUnlessCancelledInWait ==
    pc = "done"
    => ( /\ (FinalResponseNon2xx /\ ret # CtxErr)
            => ( /\ IsAPIError(ret)
                 /\ ret = newAPIError(resp[1].StatusCode, resp[1].Body) )
         /\ (FinalResponseNon2xx /\ ret = CtxErr)
            => ( /\ ~IsAPIError(ret)
                 /\ cancelAt \in {"select", "waiting"} )
         /\ (ret = Nil \/ NonHTTPError(ret) \/ IsCancellation(ret) \/ NoRequest)
            => ~IsAPIError(ret)
         /\ IsAPIError(ret) => FinalResponseNon2xx )

\* Retries exhausted on 500, 500: the APIError of the second.
C24_Witness ==
    /\ pc = "done"
    /\ Configured
    /\ retry[1].maxRetries = 1
    /\ statuses = <<500, 500>>
    /\ FinalResponseNon2xx
    /\ IsAPIError(ret)
    /\ ret.StatusCode = 500

\* The first byte of a text that is no JSON whitespace ("": there is none).
FirstNonWhitespace(text) ==
    LET at == { i \in DOMAIN text : text[i] \notin JSONWhitespace }
    IN  IF at = {} THEN ""
        ELSE text[CHOOSE i \in at : \A j \in at : i <= j]

\* C25: UnmarshalJSON picks the variant by the first non-whitespace byte of
\* the payload.  '[': the payload is decoded into Results, ID and Status
\* stay empty.  Anything else: the payload is decoded as an object into ID
\* and Status, Results stays empty.  Raw holds the payload either way.
C25_VariantByFirstByte ==
    pc = "unmarshalled"
    => LET payload == resp[1].Body
       IN  /\ target.Raw = payload.text
           /\ IF FirstNonWhitespace(payload.text) = "["
              THEN /\ target.ID = "" /\ target.Status = ""
                   /\ payload.doc.kind = "array" => target.Results = payload.doc.cities
                   /\ (err = Nil) <=> (payload.doc.kind = "array" /\ payload.doc.elems = "ok")
              ELSE /\ target.Results = <<>>
                   /\ (err = Nil) <=>
                        \/ payload.doc.kind = "null"
                        \/ /\ payload.doc.kind = "object"
                           /\ ~FieldMismatch(payload.doc.id)
                           /\ ~FieldMismatch(payload.doc.status)
                   /\ (err = Nil /\ payload.doc.kind = "object")
                      => ( /\ target.ID = FieldStored(payload.doc.id)
                           /\ target.Status = FieldStored(payload.doc.status) )
                   /\ err # Nil => target.ID = "" /\ target.Status = ""

\* Whitespace, then an array of two addresses.
C25_Witness ==
    /\ pc = "unmarshalled"
    /\ resp[1].Body.text = <<"\n", "\t", "[", "{\"city\":\"Berlin\"},{\"city\":\"Paris\"}]">>
    /\ err = Nil
    /\ target.Results = <<"Berlin", "Paris">>
    /\ target.ID = ""
    /\ target.Raw = resp[1].Body.text

\* The hint carries no Retry-After value that is a non-negative integer: it
\* is nil, or its value is empty, negative or no integer.
NoNonNegativeRetryAfter == hint = <<>> \/ ~NonNegativeInteger(hint[1].retryAfter)

\* The delay is the jittered backoff, a whole number of ticks (the bound
\* below it as C6 has it).
BackoffDelay ==
    LET b == CappedBackoff(retry[1].initialDelay, retry[1].maxDelay, attempt)
    IN  delay >= b \div 2 /\ delay <= b

\* C26: when the Retry-After value does not parse as a non-negative integer
\* (a negative integer, a value that is no integer, or none) the delay is
\* the jittered exponential backoff between half of min(D*2^k, M) and
\* min(D*2^k, M), and so never negative.
C26_BackoffUnlessNonNegativeInteger ==
    (pc = "calcdone" /\ NoNonNegativeRetryAfter)
    => (BackoffDelay /\ delay >= 0)

\* The same for the values strconv.Atoi rejects, and without a value.
C26_BackoffWhenAtoiFails ==
    ( /\ pc = "calcdone"
      /\ hint = <<>> \/ ~Atoi(hint[1].retryAfter).ok )
    => (BackoffDelay /\ delay >= 0)

\* The latest attempt failed in the client itself: the request body had been
\* read to its end by an earlier attempt.
FailedOnConsumedBody == err.kind = "executing request" /\ err.cause = "body"

\* C27: under a retry configuration every attempt of a POST call sends the
\* request with its complete body: no retry fails locally because an
\* earlier attempt consumed the body, so every attempt made while the
\* context is live reaches the transport with the body to send.
C27_PostRetrySendsBody ==
    (Configured /\ method = "POST") => ~FailedOnConsumedBody

\* The first attempt of a POST, and every attempt of a GET, never fails so.
C27_FirstAttemptSendsBody ==
    (attempts <= 1 \/ method = "GET") => ~FailedOnConsumedBody

\* C28: a call returns nil only if it made at least one attempt and its
\* final attempt read a 2xx response that decoded; for every retry
\* configuration WithRetry accepts, a negative maxRetries included.
C28_SuccessOnlyAfter2xx ==
    (pc = "done" /\ ret = Nil)
    => ( /\ attempts >= 1
         /\ resp # <<>>
         /\ SuccessStatus(resp[1].StatusCode)
         /\ err = Nil
         /\ hasResult => target = resp[1].Body.text )

\* The same for the clients with maxRetries >= 0 or no retry configuration.
C28_SuccessOnlyAfter2xxNonNegative ==
    (pc = "done" /\ ret = Nil /\ MaxRetryCount >= 0)
    => ( /\ attempts >= 1
         /\ resp # <<>>
         /\ SuccessStatus(resp[1].StatusCode)
         /\ err = Nil
         /\ hasResult => target = resp[1].Body.text )

\* What a client without a retry configuration makes of the latest attempt:
\* execute() applied to what the attempt produced.  An attempt that read no
\* response failed in Do or in the read, for a cause of the network, of the
\* context or of the consumed body.
AsExecuted ==
    IF resp # <<>>
    THEN { execute(resp[1], hasResult) }
    ELSE { execute(o, hasResult) :
             o \in { DoFailed(c) : c \in {"net", "ctx", "body"} }
                   \cup { ReadFailed(c) : c \in {"net", "ctx"} } }

\* C29: a client whose retry configuration has maxRetries = 0 behaves as a
\* client with none: one attempt, no wait, and after the attempt the error
\* returned and the contents of the decode target are those execute()
\* gives for what the attempt produced.
C29_ZeroRetriesAsUnconfigured ==
    (Configured /\ retry[1].maxRetries = 0)
    => ( /\ attempts <= 1
         /\ pc \notin {"select", "waiting"}
         /\ (pc = "done" /\ ~NoRequest)
            => ( /\ attempts = 1
                 /\ \E x \in AsExecuted :
                        /\ ret = x.err
                        /\ target = IF x.write = "keep" THEN "unset" ELSE x.write ) )

\* 429 with Retry-After: 2 under WithRetry(0, ...): one attempt, no wait.
C29_Witness ==
    /\ Configured
    /\ retry[1].maxRetries = 0
    /\ pc = "done"
    /\ attempts = 1
    /\ statuses = <<429>>
    /\ resp[1].RetryAfter = <<"2">>
    /\ ret = newAPIError(429, resp[1].Body)
    /\ target = "unset"

\* The waits of the call that ran to their end: the loop variable counts
\* them, one per pass through `case <-time.After(delay)`.
CompletedWaits == IF Configured THEN attempt ELSE 0

\* The call ended in a wait that the context cut short.
CancelledWait ==
    pc = "done" /\ Configured /\ ret = CtxErr /\ cancelAt \in {"select", "waiting"}

\* C30: a wait occurs only between two attempts.  The call is in a wait only
\* after an attempt that failed with a retryable status and that was not
\* the last permitted one (attempt < maxRetries); a hint and a delay exist
\* only during a wait, so that none is computed after the last permitted
\* attempt; and a call that made a >= 1 attempts has completed a-1 waits.
C30_WaitsOnlyBetweenAttempts ==
    /\ pc \in {"select", "waiting"}
       => ( /\ Configured
            /\ attempts >= 1
            /\ attempt = attempts - 1
            /\ attempt < retry[1].maxRetries
            /\ Len(statuses) = attempts
            /\ isRetryable(statuses[attempts])
            /\ hint # <<>> )
    /\ pc \notin {"select", "waiting"} => (hint = <<>> /\ delay = 0)
    /\ (pc = "done" /\ attempts >= 1) => CompletedWaits = attempts - 1

\* WithRetry(1, ...): 429, one wait, then 429 with Retry-After: 2 at the last
\* permitted attempt: returned with one completed wait and no delay.
C30_Witness ==
    /\ pc = "done"
    /\ Configured
    /\ retry[1].maxRetries = 1
    /\ attempts = 2
    /\ statuses = <<429, 429>>
    /\ resp[1].RetryAfter = <<"2">>
    /\ CompletedWaits = 1
    /\ ~CancelledWait
    /\ hint = <<>>
    /\ delay = 0
    /\ IsAPIError(ret)

====
